---- MODULE Spec2Model ----
(***************************************************************************)
(* Model of the grid splitter utility (utils/gridSplitter):                *)
(*   createGridForDimensions, getGridCandidates, analyzeGridFromImageData, *)
(*   detectGrid, detectGridWithDimensions, detectGridWithGutters,          *)
(*   splitImage, detectAndSplitGrid, splitWithDimensions.                  *)
(*                                                                         *)
(* Numbers.  Pixel channels are integers 0..255.  Real-valued quantities   *)
(* of the source are kept as exact rationals where the code only compares  *)
(* or rounds them (cell sizes, brightness averages, the 5% and 50%         *)
(* thresholds); for the image sizes and grid sizes explored here the exact *)
(* rational result equals the IEEE-754 double result of the source.        *)
(* Scores that go through Math.exp are fixed-point numbers with SCALE      *)
(* units per 1.0 (Math.exp is evaluated to that resolution).               *)
(***************************************************************************)
EXTENDS Integers, Sequences, FiniteSets, TLC

\* ---------------------------------------------------------------- bounds
MaxW == 4
MaxH == 3
MaxDim == 3
MaxFnDim == 9
MaxFnGrid == 4
MaxAxis == 5
MaxNodes == 2
MaxRuns == 1
MaxEdges == 2
MaxCreated == 2

\* ------------------------------------------------------ program constants
SCALE == 10000
GAP_BRIGHTNESS == 30
GUTTER_CONFIDENCE == 9500000
CONF_ONE == 10000000
MAX_GRID == 6
\* variant: every candidate is scored by its edges
TOP_CANDIDATES_All == MAX_GRID * MAX_GRID - 1

TOP_CANDIDATES == 8

\* ------------------------------------------------------------- utilities
Min(a, b) == IF a < b THEN a ELSE b
Max(a, b) == IF a > b THEN a ELSE b
Abs(a) == IF a < 0 THEN -a ELSE a

\* variant: a half is rounded down
RoundDiv_HalfDown(n, d) == (2 * n + d - 1) \div (2 * d)

\* Math.round(n / d) for n >= 0, d > 0: round half up
RoundDiv(n, d) == (2 * n + d) \div (2 * d)

\* the value null of a GridDetectionResult | null
Null == [null |-> TRUE]
IsNull(g) == "null" \in DOMAIN g

\* ---------------------------------------------------------------- images
\* A decoded image: width, height and RGB data in row-major order (the
\* alpha byte is read by no function of the module and is left out).
Black == <<0, 0, 0>>
Palette == { <<40, 40, 40>>, <<90, 0, 0>>, <<255, 255, 255>> }

MkImage(w, h, colOn, rowOn, fg) ==
    [width |-> w, height |-> h,
     data |-> [i \in 0..(w * h - 1) |->
                 IF (i % w) \in colOn /\ (i \div w) \in rowOn THEN fg ELSE Black]]

\* contact-sheet images: content columns x content rows over black gutters
Images ==
    UNION { UNION { { MkImage(w, h, colOn, rowOn, fg) :
                        colOn \in SUBSET (0..(w - 1)),
                        rowOn \in SUBSET (0..(h - 1)),
                        fg \in Palette } : h \in 1..MaxH } : w \in 1..MaxW }

\* data[(y * width + x) * 4 + c]
Px(img, x, y, c) == img.data[y * img.width + x][c + 1]

\* ------------------------------------------------ createGridForDimensions
\* variant: the inner loop runs while col <= cols
RECURSIVE GridCells_ColInclusive(_, _, _, _, _, _, _)
GridCells_ColInclusive(width, height, rows, cols, row, col, cells) ==
    IF row >= rows THEN cells
    ELSE IF col > cols
         THEN GridCells_ColInclusive(width, height, rows, cols, row + 1, 0, cells)
         ELSE GridCells_ColInclusive(width, height, rows, cols, row, col + 1,
                        Append(cells,
                               [x |-> RoundDiv(col * width, cols),
                                y |-> RoundDiv(row * height, rows),
                                width |-> RoundDiv(width, cols),
                                height |-> RoundDiv(height, rows)]))

RECURSIVE GridCells(_, _, _, _, _, _, _)
GridCells(width, height, rows, cols, row, col, cells) ==
    IF row >= rows THEN cells
    ELSE IF col >= cols
         THEN GridCells(width, height, rows, cols, row + 1, 0, cells)
         ELSE GridCells(width, height, rows, cols, row, col + 1,
                        Append(cells,
                               [x |-> RoundDiv(col * width, cols),
                                y |-> RoundDiv(row * height, rows),
                                width |-> RoundDiv(width, cols),
                                height |-> RoundDiv(height, rows)]))

createGridForDimensions(width, height, rows, cols) ==
    [rows |-> rows, cols |-> cols,
     cells |-> GridCells(width, height, rows, cols, 0, 0, <<>>),
     confidence |-> CONF_ONE]

\* ------------------------------------------------- detectGridWithGutters
\* 3 * colSums[x] and 3 * rowSums[y]: sums of R + G + B
RECURSIVE SumTo(_, _)
SumTo(f, n) == IF n < 0 THEN 0 ELSE f[n] + SumTo(f, n - 1)

colSums3(img) ==
    [x \in 0..(img.width - 1) |->
        SumTo([y \in 0..(img.height - 1) |->
                  Px(img, x, y, 0) + Px(img, x, y, 1) + Px(img, x, y, 2)],
              img.height - 1)]

rowSums3(img) ==
    [y \in 0..(img.height - 1) |->
        SumTo([x \in 0..(img.width - 1) |->
                  Px(img, x, y, 0) + Px(img, x, y, 1) + Px(img, x, y, 2)],
              img.width - 1)]

\* (sums[i] / crossLength) < 30
isGap(sums3, crossLength, i) == sums3[i] < 3 * GAP_BRIGHTNESS * crossLength

\* variant: an interval closed by a gap takes the gap position in, end: i
RECURSIVE ScanIntervals_EndAtGap(_, _, _, _, _, _)
ScanIntervals_EndAtGap(length, gap, i, inContent, start, intervals) ==
    IF i >= length
    THEN IF inContent
         THEN Append(intervals,
                     [start |-> start, end |-> length - 1, size |-> length - start])
         ELSE intervals
    ELSE IF ~gap[i]
         THEN IF ~inContent
              THEN ScanIntervals_EndAtGap(length, gap, i + 1, TRUE, i, intervals)
              ELSE ScanIntervals_EndAtGap(length, gap, i + 1, inContent, start, intervals)
         ELSE IF inContent
              THEN ScanIntervals_EndAtGap(length, gap, i + 1, FALSE, start,
                                 Append(intervals,
                                        [start |-> start, end |-> i, size |-> i - start + 1]))
              ELSE ScanIntervals_EndAtGap(length, gap, i + 1, inContent, start, intervals)

\* scan of findIntervals: state (i, inContent, start, intervals)
RECURSIVE ScanIntervals(_, _, _, _, _, _)
ScanIntervals(length, gap, i, inContent, start, intervals) ==
    IF i >= length
    THEN IF inContent
         THEN Append(intervals,
                     [start |-> start, end |-> length - 1, size |-> length - start])
         ELSE intervals
    ELSE IF ~gap[i]
         THEN IF ~inContent
              THEN ScanIntervals(length, gap, i + 1, TRUE, i, intervals)
              ELSE ScanIntervals(length, gap, i + 1, inContent, start, intervals)
         ELSE IF inContent
              THEN ScanIntervals(length, gap, i + 1, FALSE, start,
                                 Append(intervals,
                                        [start |-> start, end |-> i - 1, size |-> i - start]))
              ELSE ScanIntervals(length, gap, i + 1, inContent, start, intervals)

\* variant: iv.size >= length * 0.05
KeepInterval_AtLeast(iv, length) == 20 * iv.size >= length

\* iv.size > length * 0.05
KeepInterval(iv, length) == 20 * iv.size > length

findIntervals(length, gap) ==
    SelectSeq(ScanIntervals(length, gap, 0, FALSE, 0, <<>>),
              LAMBDA iv : KeepInterval(iv, length))

isColumnGap(img) ==
    LET colSums == colSums3(img)
    IN  [x \in 0..(img.width - 1) |-> isGap(colSums, img.height, x)]

isRowGap(img) ==
    LET rowSums == rowSums3(img)
    IN  [y \in 0..(img.height - 1) |-> isGap(rowSums, img.width, y)]

colIntervalsOf(img) == findIntervals(img.width, isColumnGap(img))
rowIntervalsOf(img) == findIntervals(img.height, isRowGap(img))

\* variant: outer loop columns, inner loop rows
RECURSIVE GutterCells_ColumnMajor(_, _, _, _, _)
GutterCells_ColumnMajor(rowIvs, colIvs, r, c, cells) ==
    IF c > Len(colIvs) THEN cells
    ELSE IF r > Len(rowIvs)
         THEN GutterCells_ColumnMajor(rowIvs, colIvs, 1, c + 1, cells)
         ELSE GutterCells_ColumnMajor(rowIvs, colIvs, r + 1, c,
                          Append(cells,
                                 [x |-> colIvs[c].start, y |-> rowIvs[r].start,
                                  width |-> colIvs[c].size, height |-> rowIvs[r].size]))

\* cells from the intersections, outer loop rows, inner loop columns
RECURSIVE GutterCells(_, _, _, _, _)
GutterCells(rowIvs, colIvs, r, c, cells) ==
    IF r > Len(rowIvs) THEN cells
    ELSE IF c > Len(colIvs)
         THEN GutterCells(rowIvs, colIvs, r + 1, 1, cells)
         ELSE GutterCells(rowIvs, colIvs, r, c + 1,
                          Append(cells,
                                 [x |-> colIvs[c].start, y |-> rowIvs[r].start,
                                  width |-> colIvs[c].size, height |-> rowIvs[r].size]))

\* insertion of v into an ascending sequence, after the elements equal to it
RECURSIVE InsertAsc(_, _)
InsertAsc(s, v) ==
    IF s = <<>> THEN <<v>>
    ELSE IF s[Len(s)] <= v THEN Append(s, v)
         ELSE Append(InsertAsc(SubSeq(s, 1, Len(s) - 1), v), s[Len(s)])

\* areas.sort((a, b) => a - b)
RECURSIVE SortAsc(_)
SortAsc(s) == IF s = <<>> THEN <<>>
              ELSE InsertAsc(SortAsc(SubSeq(s, 1, Len(s) - 1)), s[Len(s)])

Area(c) == c.width * c.height

\* variant: areas[Math.floor((areas.length - 1) / 2)], the lower median
medianArea_Lower(cells) ==
    SortAsc([i \in 1..Len(cells) |-> Area(cells[i])])[((Len(cells) - 1) \div 2) + 1]

\* areas[Math.floor(areas.length / 2)]
medianArea(cells) ==
    SortAsc([i \in 1..Len(cells) |-> Area(cells[i])])[(Len(cells) \div 2) + 1]

\* variant: area > medianArea
KeepCell_NoHalf(c, median) == Area(c) > median

\* area > medianArea * 0.5
KeepCell(c, median) == 2 * Area(c) > median

\* variant: area >= medianArea * 0.5
validCells_KeepsHalf(cells) ==
    SelectSeq(cells, LAMBDA c : 2 * Area(c) >= medianArea(cells))

\* cells.filter(c => c.width * c.height > medianArea * 0.5)
validCells(cells) ==
    SelectSeq(cells, LAMBDA c : KeepCell(c, medianArea(cells)))

\* variant: null only when both axes are without intervals
guttersFromImageData_BothEmpty(img) ==
    LET colIntervals == colIntervalsOf(img)
        rowIntervals == rowIntervalsOf(img)
    IN  IF Len(rowIntervals) = 0 /\ Len(colIntervals) = 0
        THEN Null
        ELSE [rows |-> Len(rowIntervals), cols |-> Len(colIntervals),
              cells |-> validCells(GutterCells(rowIntervals, colIntervals, 1, 1, <<>>)),
              confidence |-> GUTTER_CONFIDENCE]

\* variant: rows and cols counted on the cells that passed the area filter
guttersFromImageData_CountsAfterFilter(img) ==
    LET colIntervals == colIntervalsOf(img)
        rowIntervals == rowIntervalsOf(img)
        valid == validCells(GutterCells(rowIntervals, colIntervals, 1, 1, <<>>))
    IN  IF Len(rowIntervals) = 0 \/ Len(colIntervals) = 0
        THEN Null
        ELSE [rows |-> Cardinality({valid[i].y : i \in 1..Len(valid)}),
              cols |-> Cardinality({valid[i].x : i \in 1..Len(valid)}),
              cells |-> valid,
              confidence |-> GUTTER_CONFIDENCE]

\* the body of img.onload of detectGridWithGutters, after getImageData
guttersFromImageData(img) ==
    LET colIntervals == colIntervalsOf(img)
        rowIntervals == rowIntervalsOf(img)
    IN  IF Len(rowIntervals) = 0 \/ Len(colIntervals) = 0
        THEN Null
        ELSE [rows |-> Len(rowIntervals), cols |-> Len(colIntervals),
              cells |-> validCells(GutterCells(rowIntervals, colIntervals, 1, 1, <<>>)),
              confidence |-> GUTTER_CONFIDENCE]

\* ----------------------------------------------------- aspectRatioScore
\* COMMON_ASPECT_RATIOS as <<numerator, denominator>>
COMMON_ASPECT_RATIOS ==
    << <<16, 9>>, <<4, 3>>, <<3, 2>>, <<37, 20>>, <<239, 100>>, <<1, 1>>,
       <<9, 16>>, <<3, 4>>, <<2, 3>> >>

\* Math.exp(-k) for k = 0..9 in units of 1/SCALE
EXP_INT == <<10000, 3679, 1353, 498, 183, 67, 25, 9, 3, 1>>

\* alternating Taylor series of exp(-r / SCALE), 0 <= r < SCALE
RECURSIVE ExpSeries(_, _, _, _)
ExpSeries(r, n, term, acc) ==
    IF term = 0 \/ n > 12 THEN acc
    ELSE LET t == (term * r) \div (n * SCALE)
         IN  ExpSeries(r, n + 1, t, IF n % 2 = 1 THEN acc - t ELSE acc + t)

\* Math.exp(-x / SCALE) in units of 1/SCALE, for x >= 0
ExpNeg(x) ==
    IF x >= 10 * SCALE THEN 0
    ELSE (EXP_INT[(x \div SCALE) + 1] * ExpSeries(x % SCALE, 1, SCALE, SCALE)) \div SCALE

\* ratio - 1 of the symmetric comparison of n/d with a/b, in units of 1/SCALE
Distance(n, d, a, b) ==
    LET big == Max(n * b, d * a)
        small == Min(n * b, d * a)
    IN  ((big - small) * SCALE) \div small

RECURSIVE BestMatch(_, _, _, _)
BestMatch(n, d, k, best) ==
    IF k > Len(COMMON_ASPECT_RATIOS) THEN best
    ELSE LET dist == Distance(n, d, COMMON_ASPECT_RATIOS[k][1],
                              COMMON_ASPECT_RATIOS[k][2])
         IN  BestMatch(n, d, k + 1, IF best < 0 THEN dist ELSE Min(best, dist))

\* aspectRatioScore(n / d), in units of 1/SCALE
aspectRatioScore(n, d) == ExpNeg(3 * BestMatch(n, d, 1, -1))

\* ----------------------------------------------------- getGridCandidates
\* score of one (rows, cols), in units of 1/(100 * SCALE)
CandidateScore(width, height, rows, cols) ==
    LET cellARScore == aspectRatioScore(width * rows, height * cols)
        layoutScore == ExpNeg(2 * Distance(width * rows, height * cols, 1, 1))
        cellCount == rows * cols
        cellCountScore == IF cellCount <= 6 THEN SCALE
                          ELSE ExpNeg(((cellCount - 6) * 15 * SCALE) \div 100)
        gridSymmetry == SCALE - (Abs(rows - cols) * SCALE) \div Max(rows, cols)
    IN  cellARScore * 55 + layoutScore * 25 + cellCountScore * 10 + gridSymmetry * 10

\* the two nested loops, rows and cols from 1 to 6, skipping (1, 1)
RECURSIVE PushCandidates(_, _, _, _, _)
PushCandidates(width, height, rows, cols, candidates) ==
    IF rows > MAX_GRID THEN candidates
    ELSE IF cols > MAX_GRID
         THEN PushCandidates(width, height, rows + 1, 1, candidates)
         ELSE IF rows = 1 /\ cols = 1
              THEN PushCandidates(width, height, rows, cols + 1, candidates)
              ELSE PushCandidates(width, height, rows, cols + 1,
                       Append(candidates,
                              [rows |-> rows, cols |-> cols,
                               cellWidth |-> <<width, cols>>,
                               cellHeight |-> <<height, rows>>,
                               cellAspectRatio |-> <<width * rows, height * cols>>,
                               score |-> CandidateScore(width, height, rows, cols)]))

\* variant: the comparator a.score - b.score
RECURSIVE InsertByScore_Ascending(_, _)
InsertByScore_Ascending(s, c) ==
    IF s = <<>> THEN <<c>>
    ELSE IF s[Len(s)].score <= c.score THEN Append(s, c)
         ELSE Append(InsertByScore_Ascending(SubSeq(s, 1, Len(s) - 1), c), s[Len(s)])

\* b.score - a.score: c goes after every element whose score is >= its own
RECURSIVE InsertByScore(_, _)
InsertByScore(s, c) ==
    IF s = <<>> THEN <<c>>
    ELSE IF s[Len(s)].score >= c.score THEN Append(s, c)
         ELSE Append(InsertByScore(SubSeq(s, 1, Len(s) - 1), c), s[Len(s)])

\* candidates.sort((a, b) => b.score - a.score), a stable sort
RECURSIVE SortByScore(_)
SortByScore(s) == IF s = <<>> THEN <<>>
                  ELSE InsertByScore(SortByScore(SubSeq(s, 1, Len(s) - 1)), s[Len(s)])

getGridCandidates(width, height) ==
    SortByScore(PushCandidates(width, height, 1, 1, <<>>))

\* --------------------------------------------------------- edge profiles
\* gradR + gradG + gradB between two pixels
Gradient(img, x1, y1, x2, y2) ==
    Abs(Px(img, x2, y2, 0) - Px(img, x1, y1, 0))
    + Abs(Px(img, x2, y2, 1) - Px(img, x1, y1, 1))
    + Abs(Px(img, x2, y2, 2) - Px(img, x1, y1, 2))

\* profile[x] * 3 * height
calculateVerticalEdgeProfile(img) ==
    [x \in 0..(img.width - 1) |->
        IF x >= 1 /\ x < img.width - 1
        THEN SumTo([y \in 0..(img.height - 1) |-> Gradient(img, x - 1, y, x + 1, y)],
                   img.height - 1)
        ELSE 0]

\* profile[y] * 3 * width
calculateHorizontalEdgeProfile(img) ==
    [y \in 0..(img.height - 1) |->
        IF y >= 1 /\ y < img.height - 1
        THEN SumTo([x \in 0..(img.width - 1) |-> Gradient(img, x, y - 1, x, y + 1)],
                   img.width - 1)
        ELSE 0]

\* ------------------------------------------------------ scoreGridByEdges
\* Math.max(3, Math.floor(Math.min(width / cols, height / rows) * 0.03))
searchWindow(rows, cols, width, height) ==
    Max(3, IF width * rows <= height * cols
           THEN (3 * width) \div (100 * cols)
           ELSE (3 * height) \div (100 * rows))

\* largest profile value at expectedPos - window .. expectedPos + window
RECURSIVE MaxStrength(_, _, _, _, _)
MaxStrength(profile, length, expectedPos, offset, window) ==
    IF offset > window THEN 0
    ELSE LET pos == expectedPos + offset
             rest == MaxStrength(profile, length, expectedPos, offset + 1, window)
         IN  IF pos > 0 /\ pos < length - 1 THEN Max(profile[pos], rest) ELSE rest

\* Math.min(ratio, 3), ratio = baseline > 0 ? maxStrength / baseline : 1
CappedRatio(maxStrength, profileSum, length) ==
    IF profileSum > 0
    THEN IF maxStrength * length >= 3 * profileSum THEN 3 * SCALE
         ELSE (maxStrength * length * SCALE) \div profileSum
    ELSE SCALE

\* sum of the capped ratios of division points i .. n - 1 along one axis
RECURSIVE AxisRatios(_, _, _, _, _)
AxisRatios(profile, length, n, i, window) ==
    IF i >= n THEN 0
    ELSE CappedRatio(MaxStrength(profile, length, RoundDiv(length * i, n),
                                 -window, window),
                     SumTo(profile, length - 1), length)
         + AxisRatios(profile, length, n, i + 1, window)

\* the last line: Math.min((avgRatio - 1) / 2, 1)
EdgeScoreOf(totalRatio, divisions) ==
    Min((totalRatio - divisions * SCALE) \div (2 * divisions), SCALE)

\* in units of 1/SCALE
scoreGridByEdges(rows, cols, width, height, verticalProfile, horizontalProfile) ==
    LET window == searchWindow(rows, cols, width, height)
        totalRatio ==
            (IF cols > 1 THEN AxisRatios(verticalProfile, width, cols, 1, window) ELSE 0)
            + (IF rows > 1 THEN AxisRatios(horizontalProfile, height, rows, 1, window) ELSE 0)
        divisions == (IF cols > 1 THEN cols - 1 ELSE 0) + (IF rows > 1 THEN rows - 1 ELSE 0)
    IN  IF divisions = 0 THEN 0 ELSE EdgeScoreOf(totalRatio, divisions)

\* ----------------------------------------------- analyzeGridFromImageData
NEG_INFINITY == -2000000000

\* candidate.score * 0.8 + edgeScore * 0.2, in units of 1/CONF_ONE
CombinedScore_Unweighted(score, edgeScore) == score * 10 + edgeScore * 200

CombinedScore(score, edgeScore) == score * 8 + edgeScore * 200

\* variant: the best is chosen by candidate.score, the edges only set the confidence
RECURSIVE BestCandidate_GeometricOnly(_, _, _, _, _, _)
BestCandidate_GeometricOnly(img, top, k, vp, hp, best) ==
    IF k > Len(top) THEN best
    ELSE LET candidate == top[k]
             edgeScore == scoreGridByEdges(candidate.rows, candidate.cols,
                                           img.width, img.height, vp, hp)
             combinedScore == CombinedScore(candidate.score, edgeScore)
         IN  BestCandidate_GeometricOnly(img, top, k + 1, vp, hp,
                           IF candidate.score > best.bestCandidate.score
                              \/ best.bestCombinedScore = NEG_INFINITY
                           THEN [bestCandidate |-> candidate,
                                 bestCombinedScore |-> combinedScore]
                           ELSE best)

\* the loop over candidates.slice(0, 8): state (bestCandidate, bestCombinedScore)
RECURSIVE BestCandidate(_, _, _, _, _, _)
BestCandidate(img, top, k, vp, hp, best) ==
    IF k > Len(top) THEN best
    ELSE LET candidate == top[k]
             edgeScore == scoreGridByEdges(candidate.rows, candidate.cols,
                                           img.width, img.height, vp, hp)
             combinedScore == CombinedScore(candidate.score, edgeScore)
         IN  BestCandidate(img, top, k + 1, vp, hp,
                           IF combinedScore > best.bestCombinedScore
                           THEN [bestCandidate |-> candidate,
                                 bestCombinedScore |-> combinedScore]
                           ELSE best)

analyzeGridFromImageData(img) ==
    LET candidates == getGridCandidates(img.width, img.height)
        best == BestCandidate(img, SubSeq(candidates, 1, Min(TOP_CANDIDATES, Len(candidates))), 1,
                              calculateVerticalEdgeProfile(img),
                              calculateHorizontalEdgeProfile(img),
                              [bestCandidate |-> candidates[1],
                               bestCombinedScore |-> NEG_INFINITY])
    IN  [createGridForDimensions(img.width, img.height,
                                 best.bestCandidate.rows, best.bestCandidate.cols)
           EXCEPT !.confidence = best.bestCombinedScore]

\* -------------------------------------------------------------- splitImage
Transparent == <<0, 0, 0, 0>>

\* drawImage of the cell's rectangle onto a canvas of the cell's size, then
\* toDataURL: the pixels of the rectangle, transparent where the rectangle
\* leaves the image; a canvas without area encodes as the empty payload
Crop(img, cell) ==
    IF cell.width = 0 \/ cell.height = 0 THEN <<>>
    ELSE [yy \in 1..cell.height |->
            [xx \in 1..cell.width |->
                IF cell.x + xx - 1 < img.width /\ cell.y + yy - 1 < img.height
                THEN Append(img.data[(cell.y + yy - 1) * img.width + cell.x + xx - 1], 255)
                ELSE Transparent]]

\* variant: cells without area are passed over
RECURSIVE SplitLoop_SkipsEmpty(_, _, _, _, _)
SplitLoop_SkipsEmpty(img, cells, i, failAt, results) ==
    IF i > Len(cells) THEN [results |-> results, failed |-> FALSE]
    ELSE IF i = failAt THEN [results |-> results, failed |-> TRUE]
         ELSE SplitLoop_SkipsEmpty(img, cells, i + 1, failAt,
                  IF cells[i].width = 0 \/ cells[i].height = 0 THEN results
                  ELSE Append(results, Crop(img, cells[i])))

\* for (const cell of grid.cells): the loop leaves at cell number failAt
\* (no 2d context, or drawImage / toDataURL throws); failAt = 0: no failure
RECURSIVE SplitLoop(_, _, _, _, _)
SplitLoop(img, cells, i, failAt, results) ==
    IF i > Len(cells) THEN [results |-> results, failed |-> FALSE]
    ELSE IF i = failAt THEN [results |-> results, failed |-> TRUE]
         ELSE SplitLoop(img, cells, i + 1, failAt, Append(results, Crop(img, cells[i])))

\* ------------------------------------------------------------------ state
VARIABLES
    img,        \* the image behind imageDataUrl, as it decodes
    entry,      \* the exported function that was called, with rows and cols
    pc,         \* the promise being awaited, or idle / resolved / rejected
    calls,      \* the functions invoked so far, in order
    failures,   \* the decode / context / drawing failures that happened
    gutters,    \* what detectGridWithGutters resolved with
    grid,       \* the variable grid of the entry function
    results,    \* the array results of splitImage when its handler ended
    ret,        \* the value the entry function resolved with
    error,      \* the message the entry function rejected with
    node,       \* the split node's data: status, error, and the outputs it made
    fnIn,       \* arguments of a direct call of a pure function
    fnOut,      \* its result
    wfTypes,        \* workflow store: the type of each node of nodes
    wfEdges,        \* workflow store: edges, as <<source, target>>
    wfPause,        \* the edges whose data.hasPause is set
    isRunning,      \* workflow store: isRunning
    currentNodeId,  \* workflow store: currentNodeId
    pausedAtNodeId, \* workflow store: pausedAtNodeId
    nodeData,       \* workflow store: the data of each node that execution reads
    executions,     \* the calls of executeWorkflow / regenerateNode that are at an
                    \* await, each with what it did to nodes so far, in order
    returned        \* the call that returned last

wfVars == <<wfTypes, wfEdges, wfPause, isRunning, currentNodeId, pausedAtNodeId,
            nodeData, executions, returned>>

vars == <<img, entry, pc, calls, failures, gutters, grid, results, ret, error, node, fnIn, fnOut,
          wfVars>>

Unset == [unset |-> TRUE]
IsSet(v) == "unset" \notin DOMAIN v

NoEntry == [fn |-> "none", rows |-> 0, cols |-> 0]

Failure(stage, kind) == [stage |-> stage, kind |-> kind, at |-> Len(calls)]

IdleNode == [status |-> "idle", error |-> "", outputs |-> <<>>]

NodeIds == 1..MaxNodes
NoNodeId == 0

\* the fields of a node's data that execution reads: status, and whether
\* outputText and inputPrompt hold a text
NoCall == [fn |-> "none"]

NewData == [status |-> "idle", outputText |-> FALSE, inputPrompt |-> FALSE]

\* the initial state of the workflow store, over a given graph
InitialStore ==
    /\ isRunning = FALSE
    /\ currentNodeId = NoNodeId
    /\ pausedAtNodeId = NoNodeId
    /\ nodeData = [n \in NodeIds |-> NewData]
    /\ executions = <<>>
    /\ returned = NoCall

\* a store whose workflow is never run
NoWorkflow ==
    /\ wfTypes = [n \in NodeIds |-> "imageInput"]
    /\ wfEdges = {}
    /\ wfPause = {}
    /\ InitialStore

Init ==
    /\ img \in Images
    /\ node = IdleNode
    /\ entry = NoEntry
    /\ pc = "idle"
    /\ calls = <<>>
    /\ failures = <<>>
    /\ gutters = Unset
    /\ grid = Unset
    /\ results = <<>>
    /\ ret = Unset
    /\ error = ""
    /\ fnIn = [name |-> "none"]
    /\ fnOut = Unset
    /\ NoWorkflow

\* ------------------------------------------------------ detectAndSplitGrid
\* the call, up to the first await
CallDetectAndSplitGrid ==
    /\ pc = "idle"
    /\ entry' = [fn |-> "detectAndSplitGrid", rows |-> 0, cols |-> 0]
    /\ calls' = Append(calls, "detectGridWithGutters")
    /\ pc' = "detectGridWithGutters"
    /\ UNCHANGED <<wfVars, img, failures, gutters, grid, results, ret, error, fnIn, fnOut>>

\* the split node of executeWorkflow, up to its await: the connected input,
\* status loading, and the call of detectAndSplitGrid
ExecuteSplitNode ==
    /\ node.status = "idle"
    /\ \E inputImage \in BOOLEAN :
          IF inputImage
          THEN /\ node' = [node EXCEPT !.status = "loading", !.error = ""]
               /\ CallDetectAndSplitGrid
          ELSE /\ pc = "idle"
               /\ node' = [node EXCEPT !.status = "error", !.error = "Missing input image"]
               /\ UNCHANGED <<wfVars, img, entry, pc, calls, failures, gutters, grid, results,
                              ret, error, fnIn, fnOut>>

\* variant: if (!grid)
NeedsFallback_NullOnly(g) == IsNull(g)

\* variant: if (!grid || grid.cells.length < 1)
NeedsFallback_OnlyEmpty(g) == IsNull(g) \/ Len(g.cells) < 1

\* if (!grid || grid.cells.length < 2)
NeedsFallback(g) == IsNull(g) \/ Len(g.cells) < 2

\* variant: detectGrid is run after every gap detection
AfterGutters_AlwaysDetects(g) ==
    /\ gutters' = g
    /\ calls' = Append(calls, "detectGrid")
    /\ pc' = "detectGrid"
    /\ grid' = g
    /\ UNCHANGED <<wfVars, img, node, entry, results, ret, error, fnIn, fnOut>>

\* detectAndSplitGrid resumed with the value g of detectGridWithGutters
AfterGutters(g) ==
    /\ gutters' = g
    /\ IF NeedsFallback(g)
       THEN /\ calls' = Append(calls, "detectGrid")
            /\ pc' = "detectGrid"
            /\ grid' = g
       ELSE /\ calls' = Append(calls, "splitImage")
            /\ pc' = "splitImage"
            /\ grid' = g
    /\ UNCHANGED <<wfVars, img, node, entry, results, ret, error, fnIn, fnOut>>

\* img.onload of detectGridWithGutters
GuttersOnload ==
    /\ pc = "detectGridWithGutters"
    /\ \E ctx \in BOOLEAN :
          IF ctx
          THEN /\ failures' = failures
               /\ AfterGutters(guttersFromImageData(img))
          ELSE /\ failures' = Append(failures, Failure("detectGridWithGutters", "context"))
               /\ AfterGutters(Null)

\* variant: img.onerror rejects, and detectAndSplitGrid with it
GuttersOnerror_Rejects ==
    /\ pc = "detectGridWithGutters"
    /\ failures' = Append(failures, Failure("detectGridWithGutters", "load"))
    /\ error' = "Failed to load image"
    /\ pc' = "rejected"
    /\ UNCHANGED <<wfVars, img, node, entry, calls, gutters, grid, results, ret, fnIn, fnOut>>

\* img.onerror of detectGridWithGutters
GuttersOnerror ==
    /\ pc = "detectGridWithGutters"
    /\ failures' = Append(failures, Failure("detectGridWithGutters", "load"))
    /\ AfterGutters(Null)

\* a rejected await: the entry function rejects with the same error
Reject(stage, kind, message) ==
    /\ failures' = Append(failures, Failure(stage, kind))
    /\ error' = message
    /\ pc' = "rejected"
    /\ UNCHANGED <<wfVars, img, node, entry, calls, gutters, grid, ret, fnIn, fnOut>>

\* img.onload of detectGrid, and detectAndSplitGrid resumed
DetectGridOnload ==
    /\ pc = "detectGrid"
    /\ \E outcome \in {"ok", "context", "throw"} :
          CASE outcome = "ok" ->
                 /\ grid' = analyzeGridFromImageData(img)
                 /\ calls' = Append(calls, "splitImage")
                 /\ pc' = "splitImage"
                 /\ UNCHANGED <<wfVars, img, node, entry, failures, gutters, results, ret, error, fnIn, fnOut>>
            [] outcome = "context" ->
                 /\ Reject("detectGrid", "context", "Could not get canvas context")
                 /\ UNCHANGED results
            [] outcome = "throw" ->
                 /\ Reject("detectGrid", "throw", "exception")
                 /\ UNCHANGED results

\* img.onerror of detectGrid
DetectGridOnerror ==
    /\ pc = "detectGrid"
    /\ Reject("detectGrid", "load", "Failed to load image")
    /\ UNCHANGED results

\* ----------------------------------------------------- splitWithDimensions
CallSplitWithDimensions ==
    /\ pc = "idle"
    /\ node.status = "idle"
    /\ \E rows \in 1..MaxDim, cols \in 1..MaxDim :
          entry' = [fn |-> "splitWithDimensions", rows |-> rows, cols |-> cols]
    /\ calls' = Append(calls, "detectGridWithDimensions")
    /\ pc' = "detectGridWithDimensions"
    /\ UNCHANGED <<wfVars, img, node, failures, gutters, grid, results, ret, error, fnIn, fnOut>>

\* variant: rows and cols passed in the wrong order
DimensionsOnload_Swapped ==
    /\ pc = "detectGridWithDimensions"
    /\ grid' = createGridForDimensions(img.width, img.height, entry.cols, entry.rows)
    /\ calls' = Append(calls, "splitImage")
    /\ pc' = "splitImage"
    /\ UNCHANGED <<wfVars, img, node, entry, failures, gutters, results, ret, error, fnIn, fnOut>>

\* img.onload of detectGridWithDimensions, and splitWithDimensions resumed
DimensionsOnload ==
    /\ pc = "detectGridWithDimensions"
    /\ grid' = createGridForDimensions(img.width, img.height, entry.rows, entry.cols)
    /\ calls' = Append(calls, "splitImage")
    /\ pc' = "splitImage"
    /\ UNCHANGED <<wfVars, img, node, entry, failures, gutters, results, ret, error, fnIn, fnOut>>

\* img.onerror of detectGridWithDimensions
DimensionsOnerror ==
    /\ pc = "detectGridWithDimensions"
    /\ Reject("detectGridWithDimensions", "load", "Failed to load image")
    /\ UNCHANGED results

\* -------------------------------------------------------------- splitImage
\* variant: a failing cell resolves with the crops made so far
SplitOnload_ResolvesPartial ==
    /\ pc = "splitImage"
    /\ \E failAt \in 0..Len(grid.cells) :
          LET loop == SplitLoop(img, grid.cells, 1, failAt, <<>>)
          IN  /\ results' = loop.results
              /\ ret' = [grid |-> grid, images |-> loop.results]
              /\ pc' = "resolved"
              /\ error' = error
              /\ failures' = IF loop.failed
                             THEN Append(failures, Failure("splitImage", "throw"))
                             ELSE failures
              /\ UNCHANGED <<wfVars, img, node, entry, calls, gutters, grid, fnIn, fnOut>>

\* img.onload of splitImage, and the entry function resumed
SplitOnload ==
    /\ pc = "splitImage"
    /\ \E failAt \in 0..Len(grid.cells) :
          LET loop == SplitLoop(img, grid.cells, 1, failAt, <<>>)
          IN  /\ results' = loop.results
              /\ IF loop.failed
                 THEN \E kind \in {"context", "throw"} :
                         Reject("splitImage", kind,
                                IF kind = "context" THEN "Could not get canvas context"
                                ELSE "exception")
                 ELSE /\ ret' = [grid |-> grid, images |-> loop.results]
                      /\ pc' = "resolved"
                      /\ UNCHANGED <<wfVars, img, node, entry, calls, failures, gutters, grid, error, fnIn, fnOut>>

\* img.onerror of splitImage
SplitOnerror ==
    /\ pc = "splitImage"
    /\ Reject("splitImage", "load", "Failed to load image")
    /\ UNCHANGED results

\* -------------------------------------------------------------- split node
\* splitImages.forEach: the row and column the node gives to each image
SplitOutputs(cols, n) ==
    [index \in 1..n |-> [row |-> (index - 1) \div cols, col |-> (index - 1) % cols]]

\* variant: the node also reports an error when the gap detector found no grid
SplitNodeResolved_NeedsGutters ==
    /\ pc = "resolved"
    /\ node.status = "loading"
    /\ node' = IF Len(ret.images) = 0 \/ IsNull(gutters)
               THEN [node EXCEPT !.status = "error", !.error = "No grid detected"]
               ELSE [status |-> "complete", error |-> "",
                     outputs |-> SplitOutputs(ret.grid.cols, Len(ret.images))]
    /\ UNCHANGED <<wfVars, img, entry, pc, calls, failures, gutters, grid, results,
                   ret, error, fnIn, fnOut>>

\* the split node resumed with the value of detectAndSplitGrid
SplitNodeResolved ==
    /\ pc = "resolved"
    /\ node.status = "loading"
    /\ node' = IF Len(ret.images) = 0
               THEN [node EXCEPT !.status = "error", !.error = "No grid detected"]
               ELSE [status |-> "complete", error |-> "",
                     outputs |-> SplitOutputs(ret.grid.cols, Len(ret.images))]
    /\ UNCHANGED <<wfVars, img, entry, pc, calls, failures, gutters, grid, results,
                   ret, error, fnIn, fnOut>>

\* the catch block of the split node: detectAndSplitGrid rejected
SplitNodeCaught ==
    /\ pc = "rejected"
    /\ node.status = "loading"
    /\ \E isError \in (IF error = "exception" THEN BOOLEAN ELSE {TRUE}) :
          node' = [node EXCEPT !.status = "error",
                               !.error = IF isError THEN error ELSE "Split failed"]
    /\ UNCHANGED <<wfVars, img, entry, pc, calls, failures, gutters, grid, results,
                   ret, error, fnIn, fnOut>>

Next ==
    \/ ExecuteSplitNode
    \/ SplitNodeResolved
    \/ SplitNodeCaught
    \/ GuttersOnload
    \/ GuttersOnerror
    \/ DetectGridOnload
    \/ DetectGridOnerror
    \/ CallSplitWithDimensions
    \/ DimensionsOnload
    \/ DimensionsOnerror
    \/ SplitOnload
    \/ SplitOnerror

Spec == Init /\ [][Next]_vars

\* ------------------------------------------- direct calls of pure functions
IdleImage == MkImage(1, 1, {}, {}, Black)

\* one axis of a contact sheet: its length and its content positions; every
\* pattern of a short axis, and one or two short runs on a long axis, where
\* a run can be thinner than 5% of the length
LongLengths == {19, 20}

Run(start, len) == start..(start + len - 1)

AxisPatterns ==
    UNION { { [length |-> L, on |-> on] : on \in SUBSET (0..(L - 1)) } : L \in 1..MaxAxis }
    \cup
    { [length |-> L, on |-> Run(s, a) \cup Run(10, b)] :
         L \in LongLengths, s \in {0, 3}, a \in 0..3, b \in 0..3 }

\* the axes used as the row axis of a layout
RowPatterns ==
    { p \in AxisPatterns : p.length <= MaxAxis }
    \cup
    { [length |-> 20, on |-> Run(0, a) \cup Run(10, b)] : a \in 0..2, b \in 0..2 }

LayoutImages ==
    { MkImage(c.length, r.length, c.on, r.on, fg) :
         c \in AxisPatterns, r \in RowPatterns, fg \in { <<40, 40, 40>>, <<255, 255, 255>> } }

\* white content on at most 2 rows: long and flat sheets, edges on the x axis
EdgeImages ==
    { MkImage(c.length, r.length, c.on, r.on, <<255, 255, 255>>) :
         c \in AxisPatterns, r \in { p \in AxisPatterns : p.length <= 2 } }

\* axes for findIntervals: the layout axes, and long axes with a run at the end
IntervalAxes ==
    AxisPatterns
    \cup
    { [length |-> L, on |-> Run(3, a) \cup Run(L - b, b)] :
         L \in LongLengths, a \in 0..2, b \in 1..2 }

\* colSums / rowSums (times 3) at and around the threshold of average 30
SumLevels(crossLength) ==
    [dark |-> {0, 3 * GAP_BRIGHTNESS * crossLength - 1},
     bright |-> {3 * GAP_BRIGHTNESS * crossLength, 765 * crossLength}]

FindIntervalsInputs ==
    UNION { { [name |-> "findIntervals", length |-> p.length, crossLength |-> c,
               sums3 |-> [i \in 0..(p.length - 1) |-> IF i \in p.on THEN hi ELSE lo]] :
                 p \in IntervalAxes, hi \in SumLevels(c).bright, lo \in SumLevels(c).dark } :
            c \in 1..2 }

\* two sheets of two frames, white beside black, with one seam in the middle
SeamImages ==
    { MkImage(14, 24, 0..13, 0..11, <<255, 255, 255>>),
      MkImage(24, 14, 0..11, 0..13, <<255, 255, 255>>) }

FnInputs ==
    FindIntervalsInputs
    \cup
    { [name |-> "guttersFromImageData", img |-> i] : i \in LayoutImages }
    \cup
    { [name |-> "scoreGridByEdges", img |-> i, rows |-> r, cols |-> c] :
         i \in EdgeImages, r \in 1..2, c \in 1..MaxFnGrid }
    \cup
    { [name |-> "analyzeGridFromImageData", img |-> i] : i \in EdgeImages \cup SeamImages }
    \cup
    { [name |-> "createGridForDimensions", width |-> w, height |-> h,
       rows |-> r, cols |-> c] :
         w \in 1..MaxFnDim, h \in 1..MaxFnDim, r \in 1..MaxFnGrid, c \in 1..MaxFnGrid }
    \cup
    { [name |-> "getGridCandidates", width |-> w, height |-> h,
       rows |-> 0, cols |-> 0] :
         w \in 1..MaxFnDim, h \in 1..MaxFnDim }

InitFn ==
    /\ node = IdleNode
    /\ img = IdleImage
    /\ entry = NoEntry
    /\ pc = "idle"
    /\ calls = <<>>
    /\ failures = <<>>
    /\ gutters = Unset
    /\ grid = Unset
    /\ results = <<>>
    /\ ret = Unset
    /\ error = ""
    /\ fnIn \in FnInputs
    /\ fnOut = Unset
    /\ NoWorkflow

ApplyCreateGridForDimensions ==
    /\ fnIn.name = "createGridForDimensions"
    /\ ~IsSet(fnOut)
    /\ fnOut' = createGridForDimensions(fnIn.width, fnIn.height, fnIn.rows, fnIn.cols)
    /\ UNCHANGED <<wfVars, img, node, entry, pc, calls, failures, gutters, grid, results, ret, error, fnIn>>

ApplyGetGridCandidates ==
    /\ fnIn.name = "getGridCandidates"
    /\ ~IsSet(fnOut)
    /\ fnOut' = [candidates |-> getGridCandidates(fnIn.width, fnIn.height)]
    /\ UNCHANGED <<wfVars, img, node, entry, pc, calls, failures, gutters, grid, results, ret, error, fnIn>>

\* detectGridWithGutters on a decoded image
ApplyGuttersFromImageData ==
    /\ fnIn.name = "guttersFromImageData"
    /\ ~IsSet(fnOut)
    /\ fnOut' = guttersFromImageData(fnIn.img)
    /\ UNCHANGED <<wfVars, img, node, entry, pc, calls, failures, gutters, grid, results, ret, error, fnIn>>

\* scoreGridByEdges on the two edge profiles of a decoded image
ApplyScoreGridByEdges ==
    /\ fnIn.name = "scoreGridByEdges"
    /\ ~IsSet(fnOut)
    /\ fnOut' = [score |-> scoreGridByEdges(fnIn.rows, fnIn.cols,
                                            fnIn.img.width, fnIn.img.height,
                                            calculateVerticalEdgeProfile(fnIn.img),
                                            calculateHorizontalEdgeProfile(fnIn.img))]
    /\ UNCHANGED <<wfVars, img, node, entry, pc, calls, failures, gutters, grid, results, ret, error, fnIn>>

\* the geometric detector on a decoded image
ApplyAnalyzeGridFromImageData ==
    /\ fnIn.name = "analyzeGridFromImageData"
    /\ ~IsSet(fnOut)
    /\ fnOut' = analyzeGridFromImageData(fnIn.img)
    /\ UNCHANGED <<wfVars, img, node, entry, pc, calls, failures, gutters, grid, results, ret, error, fnIn>>

\* findIntervals on the sums of one axis
ApplyFindIntervals ==
    /\ fnIn.name = "findIntervals"
    /\ ~IsSet(fnOut)
    /\ fnOut' = [intervals |->
                   findIntervals(fnIn.length,
                                 [i \in 0..(fnIn.length - 1) |->
                                     isGap(fnIn.sums3, fnIn.crossLength, i)])]
    /\ UNCHANGED <<wfVars, img, node, entry, pc, calls, failures, gutters, grid, results, ret, error, fnIn>>

NextFn ==
    \/ ApplyFindIntervals
    \/ ApplyScoreGridByEdges
    \/ ApplyAnalyzeGridFromImageData
    \/ ApplyGuttersFromImageData
    \/ ApplyCreateGridForDimensions
    \/ ApplyGetGridCandidates

SpecFn == InitFn /\ [][NextFn]_vars

\* ======================================================================
\* Workflow store (store/workflowStore): executeWorkflow, stopWorkflow,
\* regenerateNode.  Nodes are numbered in the order of the nodes array.
\* An edge is <<source, target>>; its target handle is the one that fits
\* the type of its source (text for prompt and llmGenerate, image for the
\* rest), edges are listed by source, and every prompt node holds a
\* non-empty prompt and every initial imageInput node an image.
\* A call runs without interruption from one await to the next; the fetch
\* and the reading of its response are one await, and so are the expansions
\* and image loads of one make32Node.
\* ======================================================================
NodeTypes == {"imageInput", "prompt", "llmGenerate", "splitNode", "make32Node"}

\* the number of images a successful split hands to the split node
SPLIT_IMAGES == 2

RECURSIVE IdsAsc(_)
IdsAsc(S) ==
    IF S = {} THEN <<>>
    ELSE LET m == CHOOSE x \in S : \A y \in S : x <= y
         IN  <<m>> \o IdsAsc(S \ {m})

\* the part of the store that a call reads and writes, with the log of
\* what the call did so far
Store(callLog) ==
    [types |-> wfTypes, edges |-> wfEdges, isRunning |-> isRunning,
     currentNodeId |-> currentNodeId, pausedAtNodeId |-> pausedAtNodeId,
     data |-> nodeData, log |-> callLog]

SetStore(s) ==
    /\ wfTypes' = s.types
    /\ wfEdges' = s.edges
    /\ isRunning' = s.isRunning
    /\ currentNodeId' = s.currentNodeId
    /\ pausedAtNodeId' = s.pausedAtNodeId
    /\ nodeData' = s.data

\* set({ isRunning: false, currentNodeId: null })
NotRunning(s) == [s EXCEPT !.isRunning = FALSE, !.currentNodeId = NoNodeId]

\* getConnectedInputs(nodeId).text: the text of the last text edge
ConnectedText(s, nodeId) ==
    LET sources == { e[1] : e \in { f \in s.edges : f[2] = nodeId
                                      /\ s.types[f[1]] \in {"prompt", "llmGenerate"} } }
    IN  /\ sources # {}
        /\ LET last == CHOOSE x \in sources : \A y \in sources : y <= x
           IN  s.types[last] = "prompt" \/ s.data[last].outputText

\* getConnectedInputs(nodeId).images, by the nodes they come from
ConnectedImages(s, nodeId) ==
    { e[1] : e \in { f \in s.edges : f[2] = nodeId /\ s.types[f[1]] = "imageInput" } }

\* updateNodeData(nodeId, { status, ... }), entered in the log of the call;
\* stopped tells whether stopWorkflow was called while the call was at an await
UpdateNodeData(s, stopped, nodeId, status) ==
    [s EXCEPT !.data[nodeId] =
                  [@ EXCEPT !.status = status,
                            !.outputText = @ \/ (status = "complete" /\ s.types[nodeId] = "llmGenerate")],
              !.log = Append(@, [node |-> nodeId, what |-> status, stopped |-> stopped])]

\* the topological sort of executeWorkflow: visit, with the state of its
\* closure (sorted, visited, visiting) and whether it threw
RECURSIVE visit_PreOrder(_, _, _, _)
RECURSIVE visit(_, _, _, _)
RECURSIVE visitEach(_, _, _, _)
visit_PreOrder(nodeId, nodes, edges, st) ==
    IF st.thrown \/ nodeId \in st.visited THEN st
    ELSE IF nodeId \in st.visiting THEN [st EXCEPT !.thrown = TRUE]
    ELSE LET entered == [st EXCEPT !.visiting = @ \cup {nodeId},
                                   !.sorted = IF nodeId \in nodes THEN Append(@, nodeId) ELSE @]
             after == visitEach(IdsAsc({ e[1] : e \in { f \in edges : f[2] = nodeId } }),
                                nodes, edges, entered)
         IN  IF after.thrown THEN after
             ELSE [after EXCEPT !.visiting = @ \ {nodeId},
                                !.visited = @ \cup {nodeId}]

visit(nodeId, nodes, edges, st) ==
    IF st.thrown \/ nodeId \in st.visited THEN st
    ELSE IF nodeId \in st.visiting THEN [st EXCEPT !.thrown = TRUE]
    ELSE LET entered == [st EXCEPT !.visiting = @ \cup {nodeId}]
             after == visitEach(IdsAsc({ e[1] : e \in { f \in edges : f[2] = nodeId } }),
                                nodes, edges, entered)
         IN  IF after.thrown THEN after
             ELSE [after EXCEPT !.visiting = @ \ {nodeId},
                                !.visited = @ \cup {nodeId},
                                !.sorted = IF nodeId \in nodes THEN Append(@, nodeId) ELSE @]

visitEach(ids, nodes, edges, st) ==
    IF ids = <<>> THEN st
    ELSE visitEach(Tail(ids), nodes, edges, visit(Head(ids), nodes, edges, st))

\* nodes.forEach((node) => visit(node.id))
TopologicalSort(nodes, edges) ==
    visitEach(IdsAsc(nodes), nodes, edges,
              [sorted |-> <<>>, visited |-> {}, visiting |-> {}, thrown |-> FALSE])

\* a call that has returned, and a call that is at an await
Returned(s, i, outcome) == [store |-> s, i |-> i, pc |-> "returned", outcome |-> outcome]
Awaiting(s, i) == [store |-> s, i |-> i, pc |-> "await", outcome |-> ""]

\* the pause before a node: the store is left paused at it
Pause_StillRunning(s, nodeId) == [s EXCEPT !.pausedAtNodeId = nodeId]
Pause(s, nodeId) == [NotRunning(s) EXCEPT !.pausedAtNodeId = nodeId]

\* the loop of executeWorkflow over sortedNodes from index i, up to its
\* next await or to the return of the call
RECURSIVE ExecuteLoop(_, _, _, _)
ExecuteLoop(s, id, r, i) ==
    IF i > Len(r.sorted) THEN Returned(NotRunning(s), i, "done")
    ELSE IF ~s.isRunning THEN Returned(NotRunning(s), i, "stopped")
    ELSE
      LET nodeId == r.sorted[i]
          current == [s EXCEPT !.currentNodeId = nodeId,
                               !.log = Append(@, [node |-> nodeId, what |-> "execute",
                                                  stopped |-> r.stopped])]
      IN  IF /\ ~(r.isResuming /\ nodeId = r.start)
             /\ \E e \in r.edges : e[2] = nodeId /\ e \in wfPause
          THEN Returned(Pause(s, nodeId), i, "paused")
          ELSE CASE s.types[nodeId] = "llmGenerate" ->
                      IF ~ConnectedText(current, nodeId)
                      THEN Returned(NotRunning(UpdateNodeData(current, r.stopped, nodeId, "error")),
                                    i, "error")
                      ELSE Awaiting(UpdateNodeData([current EXCEPT !.data[nodeId].inputPrompt = TRUE],
                                                   r.stopped, nodeId, "loading"), i)
                 [] s.types[nodeId] \in {"splitNode", "make32Node"} ->
                      IF ConnectedImages(current, nodeId) = {}
                      THEN ExecuteLoop(UpdateNodeData(current, r.stopped, nodeId, "error"),
                                       id, r, i + 1)
                      ELSE Awaiting(UpdateNodeData(current, r.stopped, nodeId, "loading"), i)
                 [] OTHER -> ExecuteLoop(current, id, r, i + 1)

\* the nodes and edges a successful split or expansion adds: one imageInput
\* node, with an edge from the node, for each image it made beyond the nodes
\* already connected to it
SplitCreates(s, nodeId) ==
    LET connected == { e[2] : e \in { f \in s.edges : f[1] = nodeId } }
        made == IF s.types[nodeId] = "splitNode" THEN SPLIT_IMAGES
                ELSE Cardinality(ConnectedImages(s, nodeId))
        missing == IF Cardinality(connected) >= made THEN 0
                   ELSE made - Cardinality(connected)
        used == Cardinality(DOMAIN s.types)
    IN  (used + 1)..(used + missing)

AddSplitNodes(s, nodeId) ==
    LET created == SplitCreates(s, nodeId)
    IN  [s EXCEPT !.types = [n \in DOMAIN s.types \cup created |->
                                IF n \in created THEN "imageInput" ELSE s.types[n]],
                  !.data = [n \in DOMAIN s.data \cup created |->
                                IF n \in created THEN NewData ELSE s.data[n]],
                  !.edges = @ \cup { <<nodeId, n>> : n \in created }]

\* what a call leaves behind: where it stands, and the store.  id is its
\* place among the calls at an await, or one past them for a new call
Leave(id, r, out) ==
    LET call == [r EXCEPT !.i = out.i, !.pc = out.pc, !.outcome = out.outcome,
                          !.log = out.store.log,
                          !.atReturn = [isRunning |-> out.store.isRunning,
                                        currentNodeId |-> out.store.currentNodeId]]
        others == [k \in 1..(Len(executions) - 1) |->
                      IF k < id THEN executions[k] ELSE executions[k + 1]]
    IN  /\ IF out.pc = "await"
           THEN /\ executions' = IF id > Len(executions) THEN Append(executions, call)
                                  ELSE [executions EXCEPT ![id] = call]
                /\ UNCHANGED returned
           ELSE /\ executions' = IF id > Len(executions) THEN executions ELSE others
                /\ returned' = [fn |-> call.fn, start |-> call.start, edges |-> call.edges,
                                outcome |-> call.outcome, log |-> call.log,
                                atReturn |-> call.atReturn]
        /\ SetStore(out.store)

NewRun(fn, start) ==
    [fn |-> fn, start |-> start, isResuming |-> FALSE, edges |-> wfEdges,
     sorted |-> <<>>, i |-> 0, pc |-> "called", outcome |-> "",
     stopped |-> FALSE, log |-> <<>>,
     atReturn |-> [isRunning |-> isRunning, currentNodeId |-> currentNodeId]]

\* executeWorkflow(startFromNodeId), up to its first await or its return
ExecuteWorkflow ==
    /\ Len(executions) < MaxRuns
    /\ \E start \in {NoNodeId, pausedAtNodeId} :
         LET id == Len(executions) + 1
             call == NewRun("executeWorkflow", start)
         IN  IF isRunning
             THEN UNCHANGED <<wfTypes, wfEdges, isRunning, currentNodeId,
                             pausedAtNodeId, nodeData, executions, returned>>
             ELSE LET isResuming == start # NoNodeId /\ start = pausedAtNodeId
                      s == [Store(<<>>) EXCEPT !.isRunning = TRUE, !.pausedAtNodeId = NoNodeId]
                      sort == TopologicalSort(DOMAIN wfTypes, wfEdges)
                      found == { k \in 1..Len(sort.sorted) : sort.sorted[k] = start }
                      startIndex == IF start # NoNodeId /\ found # {}
                                    THEN CHOOSE k \in found : TRUE
                                    ELSE 1
                      r == [call EXCEPT !.isResuming = isResuming,
                                           !.sorted = sort.sorted]
                      out == IF sort.thrown
                             THEN Returned(NotRunning(s), 0, "cycle")
                             ELSE ExecuteLoop(s, id, r, startIndex)
                  IN  Leave(id, r, out)
    /\ UNCHANGED <<wfPause, img, entry, pc, calls, failures, gutters,
                  grid, results, ret, error, node, fnIn, fnOut>>

\* a call of executeWorkflow goes on after the await at an llmGenerate node:
\* the request succeeded, or it failed in one of the ways that end the call
ResumeLlmGenerate ==
    \E id \in 1..Len(executions), ok \in BOOLEAN :
        LET r == executions[id]
            nodeId == r.sorted[r.i]
        IN  /\ r.fn = "executeWorkflow"
            /\ r.pc = "await"
            /\ wfTypes[nodeId] = "llmGenerate"
            /\ Leave(id, r,
                     IF ok
                     THEN ExecuteLoop(UpdateNodeData(Store(r.log), r.stopped, nodeId, "complete"),
                                      id, r, r.i + 1)
                     ELSE Returned(NotRunning(UpdateNodeData(Store(r.log), r.stopped, nodeId, "error")),
                                   r.i, "error"))
            /\ UNCHANGED <<wfPause, img, entry, pc, calls, failures, gutters,
                  grid, results, ret, error, node, fnIn, fnOut>>

\* a call of executeWorkflow goes on after the await at a split node or a
\* make32Node: detectAndSplitGrid resolved with images, or with none, or it
\* rejected; some expansion succeeded, or all of them failed
ResumeSplitNode ==
    \E id \in 1..Len(executions), ok \in BOOLEAN :
        LET r == executions[id]
            nodeId == r.sorted[r.i]
        IN  /\ r.fn = "executeWorkflow"
            /\ r.pc = "await"
            /\ wfTypes[nodeId] \in {"splitNode", "make32Node"}
            /\ ok => Cardinality(DOMAIN wfTypes) + Cardinality(SplitCreates(Store(r.log), nodeId))
                         <= MaxNodes + MaxCreated
            /\ Leave(id, r,
                     ExecuteLoop(IF ok
                                 THEN UpdateNodeData(AddSplitNodes(Store(r.log), nodeId), r.stopped,
                                                     nodeId, "complete")
                                 ELSE UpdateNodeData(Store(r.log), r.stopped, nodeId, "error"),
                                 id, r, r.i + 1))
            /\ UNCHANGED <<wfPause, img, entry, pc, calls, failures, gutters,
                  grid, results, ret, error, node, fnIn, fnOut>>

\* stopWorkflow
StopWorkflow ==
    /\ SetStore(NotRunning(Store(<<>>)))
    /\ executions' = [id \in 1..Len(executions) |->
                   [executions[id] EXCEPT !.stopped = TRUE]]
    /\ UNCHANGED <<returned, wfPause, img, entry, pc, calls, failures, gutters,
                  grid, results, ret, error, node, fnIn, fnOut>>

\* regenerateNode(nodeId) for a generate node, up to its await or its return
\* (for a node of another type the call sets isRunning and currentNodeId and
\* clears them again before it returns)
RegenerateNode ==
    /\ Len(executions) < MaxRuns
    /\ \E nodeId \in { n \in DOMAIN wfTypes : wfTypes[n] = "llmGenerate" } :
         LET id == Len(executions) + 1
             call == NewRun("regenerateNode", nodeId)
         IN  IF isRunning
             THEN UNCHANGED <<wfTypes, wfEdges, isRunning, currentNodeId,
                             pausedAtNodeId, nodeData, executions, returned>>
             ELSE LET s == [Store(<<>>) EXCEPT !.isRunning = TRUE, !.currentNodeId = nodeId,
                                         !.log = Append(@, [node |-> nodeId,
                                                            what |-> "execute",
                                                            stopped |-> FALSE])]
                      r == [call EXCEPT !.sorted = <<nodeId>>]
                      out == IF ~(ConnectedText(s, nodeId) \/ nodeData[nodeId].inputPrompt)
                             THEN Returned(NotRunning(UpdateNodeData(s, FALSE, nodeId, "error")),
                                           1, "error")
                             ELSE Awaiting(UpdateNodeData(s, FALSE, nodeId, "loading"), 1)
                  IN  Leave(id, r, out)
    /\ UNCHANGED <<wfPause, img, entry, pc, calls, failures, gutters,
                  grid, results, ret, error, node, fnIn, fnOut>>

\* a call of regenerateNode goes on after its await
ResumeRegenerate ==
    \E id \in 1..Len(executions), ok \in BOOLEAN :
        LET r == executions[id]
            nodeId == r.sorted[r.i]
        IN  /\ r.fn = "regenerateNode"
            /\ r.pc = "await"
            /\ Leave(id, r,
                     Returned(NotRunning(UpdateNodeData(Store(r.log), r.stopped, nodeId,
                                                        IF ok THEN "complete" ELSE "error")),
                              r.i, IF ok THEN "done" ELSE "error"))
            /\ UNCHANGED <<wfPause, img, entry, pc, calls, failures, gutters,
                  grid, results, ret, error, node, fnIn, fnOut>>

InitWf ==
    /\ node = IdleNode
    /\ img = IdleImage
    /\ entry = NoEntry
    /\ pc = "idle"
    /\ calls = <<>>
    /\ failures = <<>>
    /\ gutters = Unset
    /\ grid = Unset
    /\ results = <<>>
    /\ ret = Unset
    /\ error = ""
    /\ fnIn = [name |-> "none"]
    /\ fnOut = Unset
    /\ wfTypes \in [NodeIds -> NodeTypes]
    /\ wfEdges \in { E \in SUBSET (NodeIds \X NodeIds) : Cardinality(E) <= MaxEdges }
    /\ wfPause \in { P \in SUBSET wfEdges : Cardinality(P) <= 1 }
    /\ InitialStore

NextWf ==
    \/ ExecuteWorkflow
    \/ ResumeLlmGenerate
    \/ ResumeSplitNode
    \/ StopWorkflow
    \/ RegenerateNode
    \/ ResumeRegenerate

SpecWf == InitWf /\ [][NextWf]_vars

\* ======================================================================
\* Properties
\* ======================================================================

\* a grid that some stage produced
IsGrid(g) == IsSet(g) /\ ~IsNull(g)

CellInside(c, w, h) ==
    /\ c.x + c.width <= w
    /\ c.y + c.height <= h
    /\ c.width > 0
    /\ c.height > 0

\* C1: every cell of every grid produced for the image (by the regular
\* partition, the geometric detector or the gap detector) lies inside the
\* image and has positive width and height.
C1_CellsInsideImage ==
    /\ IsGrid(grid) =>
          \A i \in 1..Len(grid.cells) : CellInside(grid.cells[i], img.width, img.height)
    /\ IsGrid(gutters) =>
          \A i \in 1..Len(gutters.cells) : CellInside(gutters.cells[i], img.width, img.height)

\* C2: createGridForDimensions(width, height, rows, cols) has confidence 1,
\* the given rows and cols, and exactly rows * cols cells.
C2_RegularGridShape ==
    (fnIn.name = "createGridForDimensions" /\ IsSet(fnOut)) =>
        /\ fnOut.confidence = CONF_ONE
        /\ fnOut.rows = fnIn.rows
        /\ fnOut.cols = fnIn.cols
        /\ Len(fnOut.cells) = fnIn.rows * fnIn.cols

\* a partition with more columns than the image has pixels was built
C2_Witness ==
    /\ fnIn.name = "createGridForDimensions"
    /\ IsSet(fnOut)
    /\ fnIn.rows = 3
    /\ fnIn.cols = 4
    /\ fnIn.width = 3
    /\ Len(fnOut.cells) = 12

\* the gap detector resolved with null or with fewer than 2 cells
GapFellShort == IsSet(gutters) /\ (IsNull(gutters) \/ Len(gutters.cells) < 2)

\* C3: when gap detection yields none or fewer than 2 cells, the grid and
\* the images detectAndSplitGrid returns are those of the geometric detector
\* followed by cropping.
C3_FallbackIsGeometric ==
    (entry.fn = "detectAndSplitGrid" /\ pc = "resolved" /\ GapFellShort) =>
        LET geometric == analyzeGridFromImageData(img)
        IN  /\ ret.grid = geometric
            /\ ret.images = [i \in 1..Len(geometric.cells) |-> Crop(img, geometric.cells[i])]

\* a gap result of exactly one cell was replaced by the geometric grid
C3_Witness ==
    /\ entry.fn = "detectAndSplitGrid"
    /\ pc = "resolved"
    /\ IsGrid(gutters)
    /\ Len(gutters.cells) = 1
    /\ ret.grid # gutters

\* C4: the output has one image per cell of the chosen grid, the i-th image
\* being the crop of the i-th cell.
C4_OneImagePerCellInOrder ==
    pc = "resolved" =>
        /\ ret.grid = grid
        /\ Len(ret.images) = Len(ret.grid.cells)
        /\ \A i \in 1..Len(ret.grid.cells) : ret.images[i] = Crop(img, ret.grid.cells[i])

\* a detected grid of several distinct cells, with distinct crops, was split
C4_Witness ==
    /\ pc = "resolved"
    /\ entry.fn = "detectAndSplitGrid"
    /\ Len(ret.images) >= 3
    /\ ret.images[1] # ret.images[2]
    /\ ret.grid.cells[1] # ret.grid.cells[2]

LastFailure == failures[Len(failures)]

\* C5: a failure while cropping any cell ends the entry function in an
\* error, and no image is delivered, the crops of the earlier cells included.
C5_NoPartialImages ==
    (failures # <<>> /\ LastFailure.stage = "splitImage") =>
        /\ pc = "rejected"
        /\ ~IsSet(ret)
        /\ error # ""

\* cropping failed after at least two cells had been cropped
C5_Witness ==
    /\ failures # <<>>
    /\ LastFailure.stage = "splitImage"
    /\ LastFailure.kind = "throw"
    /\ Len(results) >= 2
    /\ pc = "rejected"

IsDecodeFailure(f) == f.kind \in {"load", "context"}

\* C6 (as claimed): a decode failure or an unavailable context at any stage
\* of detectAndSplitGrid, the gap-detection stage included, ends the
\* operation in an error at that stage, and no later stage is run.
C6_EveryDecodeFailurePropagates ==
    entry.fn = "detectAndSplitGrid" =>
        \A k \in 1..Len(failures) :
            IsDecodeFailure(failures[k]) =>
                /\ pc = "rejected"
                /\ Len(calls) = failures[k].at

\* C6 (amended): a decode failure or an unavailable context in the geometric
\* detection stage or the cropping stage ends the operation in an error at
\* that stage, no later stage is run and nothing is returned; in the gap
\* detection stage it is turned into the result none, and the geometric
\* detector is the next stage run.
C6_DecodeFailureByStage ==
    entry.fn = "detectAndSplitGrid" =>
        \A k \in 1..Len(failures) :
            IsDecodeFailure(failures[k]) =>
                IF failures[k].stage = "detectGridWithGutters"
                THEN /\ IsNull(gutters)
                     /\ Len(calls) > failures[k].at
                     /\ calls[failures[k].at + 1] = "detectGrid"
                     /\ (pc = "rejected" => k < Len(failures))
                ELSE /\ pc = "rejected"
                     /\ k = Len(failures)
                     /\ Len(calls) = failures[k].at
                     /\ calls[Len(calls)] = failures[k].stage
                     /\ ~IsSet(ret)

\* the image failed to load in the gap stage and again in the geometric stage
C6_Witness ==
    /\ entry.fn = "detectAndSplitGrid"
    /\ Len(failures) = 2
    /\ failures[1] = [stage |-> "detectGridWithGutters", kind |-> "load", at |-> 1]
    /\ failures[2] = [stage |-> "detectGrid", kind |-> "load", at |-> 2]
    /\ pc = "rejected"

\* C7: splitWithDimensions never invokes the gap detector or the geometric
\* detector: it decodes the image, builds the regular partition for exactly
\* the given rows and cols, and then crops.
C7_DimensionsBypassDetection ==
    entry.fn = "splitWithDimensions" =>
        /\ Len(calls) \in {1, 2}
        /\ calls[1] = "detectGridWithDimensions"
        /\ (Len(calls) = 2 => calls[2] = "splitImage")
        /\ ~IsSet(gutters)
        /\ IsSet(grid) =>
              /\ Len(calls) = 2
              /\ grid.rows = entry.rows
              /\ grid.cols = entry.cols
              /\ grid.confidence = CONF_ONE
              /\ Len(grid.cells) = entry.rows * entry.cols
              /\ \A row \in 0..(entry.rows - 1), col \in 0..(entry.cols - 1) :
                    grid.cells[row * entry.cols + col + 1] =
                        [x |-> RoundDiv(col * img.width, entry.cols),
                         y |-> RoundDiv(row * img.height, entry.rows),
                         width |-> RoundDiv(img.width, entry.cols),
                         height |-> RoundDiv(img.height, entry.rows)]
        /\ pc = "resolved" => ret.grid = grid

\* a 2 x 3 split of a 4 pixel wide image went through
C7_Witness ==
    /\ entry = [fn |-> "splitWithDimensions", rows |-> 2, cols |-> 3]
    /\ img.width = 4
    /\ pc = "resolved"
    /\ Len(ret.images) = 6

\* C8: getGridCandidates returns exactly 35 candidates, one for each pair
\* (rows, cols) in 1..6 x 1..6 other than (1, 1), sorted non-increasing by
\* score.
C8_CandidatesCompleteAndSorted ==
    (fnIn.name = "getGridCandidates" /\ IsSet(fnOut)) =>
        LET c == fnOut.candidates
        IN  /\ Len(c) = 35
            /\ \A i \in 1..Len(c) :
                  /\ c[i].rows \in 1..6
                  /\ c[i].cols \in 1..6
                  /\ ~(c[i].rows = 1 /\ c[i].cols = 1)
            /\ \A r \in 1..6, k \in 1..6 :
                  ~(r = 1 /\ k = 1) =>
                      Cardinality({i \in 1..Len(c) : c[i].rows = r /\ c[i].cols = k}) = 1
            /\ \A i \in 1..(Len(c) - 1) : c[i].score >= c[i + 1].score

\* for a 4 x 3 image the ranking starts with 3 x 4, which was generated 15th
C8_Witness ==
    /\ fnIn.name = "getGridCandidates"
    /\ fnIn.width = 4
    /\ fnIn.height = 3
    /\ IsSet(fnOut)
    /\ fnOut.candidates[1].rows = 3
    /\ fnOut.candidates[1].cols = 4
    /\ fnOut.candidates[1].score > fnOut.candidates[35].score

\* some run of content positions is longer than 5% of the axis
HasRetainedRun(gap, length) ==
    \E a \in 0..(length - 1) : \E b \in a..(length - 1) :
        /\ \A i \in a..b : ~gap[i]
        /\ 20 * (b - a + 1) > length

GuttersDecoded ==
    /\ IsSet(gutters)
    /\ \A k \in 1..Len(failures) : failures[k].stage # "detectGridWithGutters"

\* C9: the gap detector returns none whenever the row axis or the column
\* axis yields no retained interval and, the image having decoded, a grid
\* whenever both axes yield at least one.
C9_NoneIffAnAxisIsEmpty ==
    GuttersDecoded =>
        (IsNull(gutters) <=>
            ~(HasRetainedRun(isRowGap(img), img.height)
              /\ HasRetainedRun(isColumnGap(img), img.width)))

\* the rows have content but every column is a gap
C9_Witness ==
    /\ GuttersDecoded
    /\ IsNull(gutters)
    /\ HasRetainedRun(isRowGap(img), img.height)
    /\ ~HasRetainedRun(isColumnGap(img), img.width)

\* C10: a gap detector grid has rows and cols equal to the numbers of
\* retained row and column intervals as counted before the area filter,
\* confidence 0.95, and at most rows * cols cells, fewer exactly when the
\* area filter removed a cell.
C10_GutterResultShape ==
    IsGrid(gutters) =>
        LET rowIvs == rowIntervalsOf(img)
            colIvs == colIntervalsOf(img)
            raw == GutterCells(rowIvs, colIvs, 1, 1, <<>>)
            kept == {gutters.cells[i] : i \in 1..Len(gutters.cells)}
        IN  /\ gutters.rows = Len(rowIvs)
            /\ gutters.cols = Len(colIvs)
            /\ gutters.confidence * 100 = 95 * CONF_ONE
            /\ Len(gutters.cells) <= gutters.rows * gutters.cols
            /\ (Len(gutters.cells) < gutters.rows * gutters.cols
                  <=> \E i \in 1..Len(raw) : raw[i] \notin kept)

\* the area filter removed the cells of a whole column interval
C10_Witness ==
    /\ IsGrid(gutters)
    /\ gutters.cols = 2
    /\ Len(gutters.cells) = gutters.rows
    /\ \A i \in 1..Len(gutters.cells) : gutters.cells[i].x = gutters.cells[1].x

\* ---------------------------------------------------------------------
\* block layouts, read off the pixels
ContentCols(im) ==
    { x \in 0..(im.width - 1) : \E y \in 0..(im.height - 1) : im.data[y * im.width + x] # Black }

ContentRows(im) ==
    { y \in 0..(im.height - 1) : \E x \in 0..(im.width - 1) : im.data[y * im.width + x] # Black }

\* the maximal runs <<first, last>> of a set of positions
Runs(S) ==
    { run \in S \X S :
        /\ run[1] <= run[2]
        /\ \A i \in run[1]..run[2] : i \in S
        /\ (run[1] - 1) \notin S
        /\ (run[2] + 1) \notin S }

RunLength(run) == run[2] - run[1] + 1

\* position of a run among the runs, by ascending start, from 1
RunRank(run, runs) == Cardinality({ q \in runs : q[1] < run[1] }) + 1

\* content blocks of one colour on black, every content row and column
\* with average brightness >= 30
IsBrightLayout(im) ==
    LET cc == ContentCols(im)
        rr == ContentRows(im)
    IN  /\ cc # {}
        /\ LET fg == im.data[(CHOOSE y \in rr : TRUE) * im.width + (CHOOSE x \in cc : TRUE)]
               fg3 == fg[1] + fg[2] + fg[3]
           IN  /\ \A x \in 0..(im.width - 1), y \in 0..(im.height - 1) :
                     im.data[y * im.width + x] = IF x \in cc /\ y \in rr THEN fg ELSE Black
               /\ Cardinality(rr) * fg3 >= 90 * im.height
               /\ Cardinality(cc) * fg3 >= 90 * im.width

\* all blocks of one size, each wider and taller than 5% of the image
IsEqualBlockLayout(im) ==
    /\ IsBrightLayout(im)
    /\ LET colRuns == Runs(ContentCols(im))
           rowRuns == Runs(ContentRows(im))
       IN  /\ \A p \in colRuns, q \in colRuns : RunLength(p) = RunLength(q)
           /\ \A p \in rowRuns, q \in rowRuns : RunLength(p) = RunLength(q)
           /\ \A p \in colRuns : 20 * RunLength(p) > im.width
           /\ \A p \in rowRuns : 20 * RunLength(p) > im.height

\* the rectangle of the block at a row run and a column run
BlockCell(rowRun, colRun) ==
    [x |-> colRun[1], y |-> rowRun[1],
     width |-> RunLength(colRun), height |-> RunLength(rowRun)]

GuttersApplied == fnIn.name = "guttersFromImageData" /\ IsSet(fnOut)

\* C11: for R x C equal content blocks over black gutters the gap detector
\* returns exactly R * C cells, each the rectangle of its block, in row-major
\* order, with confidence 0.95.
C11_EqualBlocksDetected ==
    (GuttersApplied /\ IsEqualBlockLayout(fnIn.img)) =>
        LET colRuns == Runs(ContentCols(fnIn.img))
            rowRuns == Runs(ContentRows(fnIn.img))
            C == Cardinality(colRuns)
        IN  /\ ~IsNull(fnOut)
            /\ Len(fnOut.cells) = Cardinality(rowRuns) * C
            /\ fnOut.confidence * 100 = 95 * CONF_ONE
            /\ \A rowRun \in rowRuns, colRun \in colRuns :
                  fnOut.cells[(RunRank(rowRun, rowRuns) - 1) * C + RunRank(colRun, colRuns)]
                     = BlockCell(rowRun, colRun)

\* 2 x 2 blocks of 2 x 1 pixels on a 20 pixel wide sheet
C11_Witness ==
    /\ GuttersApplied
    /\ IsEqualBlockLayout(fnIn.img)
    /\ fnIn.img.width = 20
    /\ ~IsNull(fnOut)
    /\ Len(fnOut.cells) = 4
    /\ fnOut.cells[4] = [x |-> 10, y |-> 2, width |-> 2, height |-> 1]

\* the blocks of a layout: row runs x column runs
BlocksOf(im) ==
    { BlockCell(rowRun, colRun) :
        rowRun \in Runs(ContentRows(im)), colRun \in Runs(ContentCols(im)) }

\* the upper median of the areas of a set of cells
UpperMedianArea(cells) ==
    LET n == Cardinality(cells)
    IN  CHOOSE v \in { Area(c) : c \in cells } :
           /\ Cardinality({ c \in cells : Area(c) < v }) <= n \div 2
           /\ Cardinality({ c \in cells : Area(c) <= v }) > n \div 2

\* runs is a set of equal runs plus the one run extra, of another length
IsExtraRun(extra, runs) ==
    /\ extra \in runs
    /\ runs # {extra}
    /\ \A p \in runs \ {extra}, q \in runs \ {extra} : RunLength(p) = RunLength(q)
    /\ \A p \in runs \ {extra} : RunLength(p) # RunLength(extra)

AllEqualRuns(runs) == \A p \in runs, q \in runs : RunLength(p) = RunLength(q)

AllAboveNoise(runs, length) == \A p \in runs : 20 * RunLength(p) > length

\* the cells of the captions of an equal-block layout with one extra row or
\* column interval whose cells are smaller than half the median cell; the
\* empty set for any other image
CaptionCells(im) ==
    IF ~IsBrightLayout(im) THEN {}
    ELSE LET colRuns == Runs(ContentCols(im))
             rowRuns == Runs(ContentRows(im))
             blocks == BlocksOf(im)
             small == { c \in blocks : 2 * Area(c) < UpperMedianArea(blocks) }
         IN  IF ~(AllAboveNoise(colRuns, im.width) /\ AllAboveNoise(rowRuns, im.height))
             THEN {}
             ELSE IF AllEqualRuns(colRuns)
                     /\ \E extra \in rowRuns :
                           /\ IsExtraRun(extra, rowRuns)
                           /\ small = { BlockCell(extra, colRun) : colRun \in colRuns }
                  THEN small
                  ELSE IF AllEqualRuns(rowRuns)
                          /\ \E extra \in colRuns :
                                /\ IsExtraRun(extra, colRuns)
                                /\ small = { BlockCell(rowRun, extra) : rowRun \in rowRuns }
                       THEN small
                       ELSE {}

\* C12: in an equal-block layout with one extra content interval whose
\* cells have an area below half the median cell area, no cell of that
\* interval is in the gap detector's cells and every main block is.
C12_CaptionCellsRemoved ==
    (GuttersApplied /\ CaptionCells(fnIn.img) # {}) =>
        /\ ~IsNull(fnOut)
        /\ { fnOut.cells[i] : i \in 1..Len(fnOut.cells) }
              = BlocksOf(fnIn.img) \ CaptionCells(fnIn.img)
        /\ Len(fnOut.cells) = Cardinality(BlocksOf(fnIn.img) \ CaptionCells(fnIn.img))

\* a 1 pixel caption column beside a 3 pixel block column on a 19 pixel axis
C12_Witness ==
    /\ GuttersApplied
    /\ fnIn.img.width = 19
    /\ CaptionCells(fnIn.img) # {}
    /\ \A c \in CaptionCells(fnIn.img) : c.x = 0 /\ c.width = 1
    /\ ~IsNull(fnOut)
    /\ fnOut.cols = 2
    /\ Len(fnOut.cells) = 2
    /\ fnOut.cells[1].x = 10
    /\ fnOut.cells[1].width = 3

CreateGridApplied == fnIn.name = "createGridForDimensions" /\ IsSet(fnOut)

Covers(c, px, py) ==
    /\ c.x <= px
    /\ px < c.x + c.width
    /\ c.y <= py
    /\ py < c.y + c.height

\* C14: the cells of createGridForDimensions(w, h, rows, cols) tile
\* [0,w) x [0,h): the first cell starts at (0,0), every pixel of the image
\* is covered by exactly one cell, and a cell reaches beyond the image only
\* in the last column or the last row, by at most 1 pixel.
C14_PartitionTilesImage ==
    CreateGridApplied =>
        /\ fnOut.cells[1].x = 0
        /\ fnOut.cells[1].y = 0
        /\ \A px \in 0..(fnIn.width - 1), py \in 0..(fnIn.height - 1) :
              Cardinality({ i \in 1..Len(fnOut.cells) : Covers(fnOut.cells[i], px, py) }) = 1
        /\ \A i \in 1..Len(fnOut.cells) :
              LET c == fnOut.cells[i]
                  lastCol == (i - 1) % fnIn.cols = fnIn.cols - 1
                  lastRow == (i - 1) \div fnIn.cols = fnIn.rows - 1
              IN  /\ c.x + c.width <= fnIn.width + (IF lastCol THEN 1 ELSE 0)
                  /\ c.y + c.height <= fnIn.height + (IF lastRow THEN 1 ELSE 0)

\* C15: scoreGridByEdges returns a value in [0,1] for every candidate grid
\* and every pair of edge profiles; division points weaker than the profile
\* baseline score 0, never a negative value.
C15_EdgeScoreInUnitRange ==
    (fnIn.name = "scoreGridByEdges" /\ IsSet(fnOut)) =>
        /\ fnOut.score >= 0
        /\ fnOut.score <= SCALE

\* a pure call that returned a GridResult
GridResultReturned ==
    /\ IsSet(fnOut)
    /\ fnIn.name \in {"createGridForDimensions", "guttersFromImageData",
                      "analyzeGridFromImageData"}
    /\ ~IsNull(fnOut)

AnalyzeApplied == fnIn.name = "analyzeGridFromImageData" /\ IsSet(fnOut)

\* C16: the confidence of every GridResult, from explicit dimensions, from the
\* gap detector and from the geometric detector, lies in [0,1]; the geometric
\* confidence 0.8*score + 0.2*edgeScore is never below 0 and never above 1.
C16_ConfidenceInUnitRange ==
    GridResultReturned =>
        /\ fnOut.confidence >= 0
        /\ fnOut.confidence <= CONF_ONE

\* the geometric detector chose a candidate whose edge score is negative
C16_Witness ==
    /\ AnalyzeApplied
    /\ fnOut.confidence < 8 * CandidateScore(fnIn.img.width, fnIn.img.height,
                                             fnOut.rows, fnOut.cols)
    /\ fnOut.confidence > 0

\* the split node ran detectAndSplitGrid and has reported its outcome
SplitNodeDone ==
    /\ entry.fn = "detectAndSplitGrid"
    /\ node.status \in {"complete", "error"}

GapDetectorFailed == IsSet(gutters) /\ IsNull(gutters)

OnlyGapFailures ==
    \A i \in 1..Len(failures) : failures[i].stage = "detectGridWithGutters"

\* C17: a failure of the gap detector alone is never reported by the split
\* node as an error; after a successful detectAndSplitGrid the node reports
\* "No grid detected" exactly when there are zero images, and no other error.
C17_GapFailureIsNotAnError ==
    /\ (SplitNodeDone /\ OnlyGapFailures) =>
          /\ node.status = "complete"
          /\ node.error = ""
    /\ (SplitNodeDone /\ pc = "resolved") =>
          /\ (node.status = "error") <=> (Len(ret.images) = 0)
          /\ (node.status = "error") <=> (node.error = "No grid detected")
          /\ (node.status = "complete") => (node.error = "")

\* the gap detector failed to decode or to get a context, and the node completed
C17_Witness ==
    /\ SplitNodeDone
    /\ GapDetectorFailed
    /\ Len(failures) > 0
    /\ node.status = "complete"
    /\ Len(node.outputs) = Len(ret.images)

\* r is n/d rounded to the nearest integer, a half rounded up
IsRoundHalfUp(r, n, d) ==
    /\ 2 * r * d <= 2 * n + d
    /\ 2 * n + d < 2 * (r + 1) * d

FindIntervalsApplied == fnIn.name = "findIntervals" /\ IsSet(fnOut)

\* positions whose average brightness sum / crossLength is at least 30
BrightPositions ==
    { i \in 0..(fnIn.length - 1) : fnIn.sums3[i] >= 90 * fnIn.crossLength }

\* the maximal runs of bright positions longer than 5% of the axis
LongRuns == { run \in Runs(BrightPositions) : 20 * RunLength(run) > fnIn.length }

\* C19: findIntervals returns exactly the maximal runs of positions with
\* average brightness >= 30 whose length is strictly greater than 0.05*L, in
\* ascending order, each with size = run length and end = start + size - 1;
\* a run that reaches position L-1 is included.
C19_IntervalsAreLongMaximalRuns ==
    FindIntervalsApplied =>
        LET out == fnOut.intervals
        IN  /\ Len(out) = Cardinality(LongRuns)
            /\ \A k \in 1..Len(out) :
                  /\ <<out[k].start, out[k].end>> \in LongRuns
                  /\ out[k].size = out[k].end - out[k].start + 1
            /\ \A k \in 1..(Len(out) - 1) : out[k].start < out[k + 1].start

\* 20 positions, bright at 3 and at 18..19: the single position is dropped
\* (1 is not more than 5% of 20), the run that ends the axis is returned
C19_Witness ==
    /\ FindIntervalsApplied
    /\ fnIn.length = 20
    /\ BrightPositions = {3, 18, 19}
    /\ fnOut.intervals = <<[start |-> 18, end |-> 19, size |-> 2]>>

\* the cross product of row intervals and column intervals, row by row
CrossProduct(rowIvs, colIvs) ==
    [k \in 1..(Len(rowIvs) * Len(colIvs)) |->
        LET rowIv == rowIvs[((k - 1) \div Len(colIvs)) + 1]
            colIv == colIvs[((k - 1) % Len(colIvs)) + 1]
        IN  [x |-> colIv.start, y |-> rowIv.start,
             width |-> colIv.size, height |-> rowIv.size]]

\* the index of cell c in the sequence cells, 0 if it is not there
IndexIn(c, cells) ==
    IF \E k \in 1..Len(cells) : cells[k] = c
    THEN CHOOSE k \in 1..Len(cells) : cells[k] = c
    ELSE 0

\* C20: the raw cells of the gap detector are the full cross product of the
\* retained row intervals and column intervals in row-major order, each cell
\* {x: colIv.start, y: rowIv.start, width: colIv.size, height: rowIv.size};
\* the area filter only removes cells and keeps the order of the others.
C20_RawCellsAreRowMajorCrossProduct ==
    (GuttersApplied /\ ~IsNull(fnOut)) =>
        LET rowIvs == rowIntervalsOf(fnIn.img)
            colIvs == colIntervalsOf(fnIn.img)
            raw == CrossProduct(rowIvs, colIvs)
        IN  /\ GutterCells(rowIvs, colIvs, 1, 1, <<>>) = raw
            /\ \A k \in 1..Len(fnOut.cells) : IndexIn(fnOut.cells[k], raw) > 0
            /\ \A k \in 1..(Len(fnOut.cells) - 1) :
                  IndexIn(fnOut.cells[k], raw) < IndexIn(fnOut.cells[k + 1], raw)

\* 2 row intervals and 2 column intervals of which the filter kept 2 or 3 cells
C20_Witness ==
    /\ GuttersApplied
    /\ ~IsNull(fnOut)
    /\ fnOut.rows = 2
    /\ fnOut.cols = 2
    /\ Len(fnOut.cells) \in {2, 3}
    /\ fnOut.cells[1].y = fnOut.cells[2].y
    /\ fnOut.cells[1].x < fnOut.cells[2].x

\* the raw cells of the gap detector for the image of the call
RawCells == CrossProduct(rowIntervalsOf(fnIn.img), colIntervalsOf(fnIn.img))

\* C21: the median cell area of the gap detector is the element at index
\* floor(n/2) of the ascending areas of the n raw cells (the upper median for
\* even n), and a raw cell is kept iff its area is strictly greater than half
\* that median; a cell of exactly half the median is discarded.
C21_KeptIffAboveHalfUpperMedian ==
    (GuttersApplied /\ ~IsNull(fnOut)) =>
        LET raw == RawCells
            rawSet == { raw[k] : k \in 1..Len(raw) }
            median == UpperMedianArea(rawSet)
            kept == { fnOut.cells[k] : k \in 1..Len(fnOut.cells) }
        IN  /\ medianArea(raw) = median
            /\ \A c \in rawSet : (c \in kept) <=> (2 * Area(c) > median)
            /\ kept \subseteq rawSet

\* an even number of raw cells, one of them of exactly half the upper median
\* area, which is not among the cells returned
C21_Witness ==
    /\ GuttersApplied
    /\ ~IsNull(fnOut)
    /\ Len(RawCells) % 2 = 0
    /\ \E k \in 1..Len(RawCells) :
          /\ 2 * Area(RawCells[k]) = medianArea(RawCells)
          /\ \A j \in 1..Len(fnOut.cells) : fnOut.cells[j] # RawCells[k]
    /\ \E k \in 1..Len(RawCells) : Area(RawCells[k]) < medianArea(RawCells)
                                   /\ 2 * Area(RawCells[k]) > medianArea(RawCells)

\* the ranked candidates for the image of the call
RankedCandidates == getGridCandidates(fnIn.img.width, fnIn.img.height)

\* the combined score of the candidate ranked k, on the image of the call
CombinedAt(k) ==
    LET candidate == RankedCandidates[k]
    IN  8 * candidate.score
        + 200 * scoreGridByEdges(candidate.rows, candidate.cols,
                                 fnIn.img.width, fnIn.img.height,
                                 calculateVerticalEdgeProfile(fnIn.img),
                                 calculateHorizontalEdgeProfile(fnIn.img))

\* the rank of the candidate whose partition was returned
ReturnedRank ==
    CHOOSE k \in 1..Len(RankedCandidates) :
        /\ RankedCandidates[k].rows = fnOut.rows
        /\ RankedCandidates[k].cols = fnOut.cols

\* C22: the grid of the geometric detector is always one of the first 8
\* ranked candidates, also when a candidate ranked 9th or lower has a
\* strictly higher combined score.
C22_ResultAmongTopEight ==
    AnalyzeApplied =>
        \E k \in 1..8 :
           /\ RankedCandidates[k].rows = fnOut.rows
           /\ RankedCandidates[k].cols = fnOut.cols

\* a candidate ranked 9th or lower beats the confidence of the returned grid
C22_Witness ==
    /\ AnalyzeApplied
    /\ ReturnedRank <= 8
    /\ \E k \in 9..Len(RankedCandidates) : CombinedAt(k) > fnOut.confidence

\* C23: among the first 8 candidates the geometric detector returns the
\* partition of the one with the maximum combined score; of several with the
\* maximum the earliest in the ranked order is chosen; the confidence is that
\* maximum.
C23_MaxCombinedEarliestWins ==
    AnalyzeApplied =>
        LET k == ReturnedRank
        IN  /\ k <= 8
            /\ fnOut.confidence = CombinedAt(k)
            /\ \A j \in 1..8 : CombinedAt(j) <= CombinedAt(k)
            /\ \A j \in 1..(k - 1) : CombinedAt(j) < CombinedAt(k)
            /\ fnOut.cells = createGridForDimensions(fnIn.img.width, fnIn.img.height,
                                                     RankedCandidates[k].rows,
                                                     RankedCandidates[k].cols).cells

\* the candidate ranked first is overtaken by the one returned, and by a
\* later one of the first 8 that is not returned
C23_Witness ==
    /\ AnalyzeApplied
    /\ ReturnedRank > 1
    /\ CombinedAt(1) < fnOut.confidence
    /\ \E j \in (ReturnedRank + 1)..8 : CombinedAt(j) > CombinedAt(1)

\* the invocation sequences of a run of detectAndSplitGrid
LinearSequences ==
    { <<"detectGridWithGutters">>,
      <<"detectGridWithGutters", "splitImage">>,
      <<"detectGridWithGutters", "detectGrid">>,
      <<"detectGridWithGutters", "detectGrid", "splitImage">> }

Invoked(fn) == \E k \in 1..Len(calls) : calls[k] = fn

GapFoundGrid == IsSet(gutters) /\ ~IsNull(gutters) /\ Len(gutters.cells) >= 2

\* C24: a run of detectAndSplitGrid invokes the gap detector once and first,
\* the geometric detector at most once and only after the gap detector gave
\* none or fewer than 2 cells, cropping at most once and only on a chosen
\* grid; with 2 or more gap cells the geometric detector is not invoked and
\* the gap result is the grid cropped and returned.
C24_LinearTryFallbackCrop ==
    entry.fn = "detectAndSplitGrid" =>
        /\ calls \in LinearSequences
        /\ Invoked("detectGrid") => GapFellShort
        /\ Invoked("splitImage") => (IsSet(grid) /\ ~IsNull(grid))
        /\ GapFoundGrid =>
              /\ ~Invoked("detectGrid")
              /\ Invoked("splitImage")
              /\ grid = gutters
              /\ pc = "resolved" => ret.grid = gutters

\* the gap detector found 2 or more cells, which were cropped and returned
C24_Witness ==
    /\ entry.fn = "detectAndSplitGrid"
    /\ pc = "resolved"
    /\ GapFoundGrid
    /\ calls = <<"detectGridWithGutters", "splitImage">>
    /\ ret.grid = gutters
    /\ Len(ret.images) = Len(gutters.cells)

\* C25: when detectAndSplitGrid completes successfully the returned grid has
\* at least 2 cells and one image per cell; a gap result that is not none
\* keeps at least one cell; the split node never reports "No grid detected".
C25_AtLeastTwoCellsReturned ==
    /\ (IsSet(gutters) /\ ~IsNull(gutters)) => Len(gutters.cells) >= 1
    /\ (entry.fn = "detectAndSplitGrid" /\ pc = "resolved") =>
          /\ Len(ret.grid.cells) >= 2
          /\ Len(ret.images) = Len(ret.grid.cells)
          /\ ret.grid.rows * ret.grid.cols >= 2
    /\ node.error # "No grid detected"

\* the area filter left one cell of several, the geometric grid replaced it,
\* and the split node completed
C25_Witness ==
    /\ entry.fn = "detectAndSplitGrid"
    /\ pc = "resolved"
    /\ ~IsNull(gutters)
    /\ gutters.rows * gutters.cols > 1
    /\ Len(gutters.cells) = 1
    /\ Len(ret.images) >= 2
    /\ node.status = "complete"

\* two rectangles without a common pixel
Disjoint(a, b) ==
    \/ a.x + a.width <= b.x
    \/ b.x + b.width <= a.x
    \/ a.y + a.height <= b.y
    \/ b.y + b.height <= a.y

\* C26: the retained intervals of an axis are strictly increasing, separated
\* by at least one position (prev.end + 1 < next.start) and inside
\* 0..length-1; the cells of a gap-detector result do not overlap pairwise.
C26_IntervalsSeparatedCellsDisjoint ==
    /\ FindIntervalsApplied =>
          LET out == fnOut.intervals
          IN  /\ \A k \in 1..Len(out) :
                    /\ 0 <= out[k].start
                    /\ out[k].start <= out[k].end
                    /\ out[k].end <= fnIn.length - 1
              /\ \A k \in 1..(Len(out) - 1) : out[k].end + 1 < out[k + 1].start
    /\ (GuttersApplied /\ ~IsNull(fnOut)) =>
          /\ \A i, j \in 1..Len(fnOut.cells) :
                i < j => Disjoint(fnOut.cells[i], fnOut.cells[j])
          /\ \A i \in 1..Len(fnOut.cells) :
                CellInside(fnOut.cells[i], fnIn.img.width, fnIn.img.height)

\* two retained intervals with a single gap position between them
C26_Witness ==
    /\ FindIntervalsApplied
    /\ Len(fnOut.intervals) >= 2
    /\ fnOut.intervals[1].end + 2 = fnOut.intervals[2].start

\* the 0-based index of the interval of ivs that starts at position start
IntervalIndex(ivs, start) ==
    (CHOOSE k \in 1..Len(ivs) : ivs[k].start = start) - 1

\* C27: the (row, col) the split node gives to the i-th image, row =
\* floor(i / grid.cols) and col = i mod grid.cols, is the grid position of
\* the i-th cell: the row and column interval it was built from in a gap
\* grid, the loop indices it was built from in a geometric grid.
C27_AssignedPositionIsGridPosition ==
    (node.status = "complete") =>
        \A i \in 1..Len(node.outputs) :
           LET assigned == node.outputs[i]
               cell == ret.grid.cells[i]
           IN  IF GapFoundGrid
               THEN /\ assigned.row = IntervalIndex(rowIntervalsOf(img), cell.y)
                    /\ assigned.col = IntervalIndex(colIntervalsOf(img), cell.x)
               ELSE /\ assigned.row < ret.grid.rows
                    /\ assigned.col < ret.grid.cols
                    /\ cell.y = RoundDiv(assigned.row * img.height, ret.grid.rows)
                    /\ cell.x = RoundDiv(assigned.col * img.width, ret.grid.cols)

\* ------------------------------------------------------ workflow store
\* the calls of executeWorkflow and regenerateNode that are known: the ones
\* at an await and the one that returned last
Calls ==
    { [fn |-> executions[k].fn, start |-> executions[k].start,
       edges |-> executions[k].edges, log |-> executions[k].log,
       pc |-> "await", outcome |-> ""] : k \in 1..Len(executions) }
    \cup (IF returned = NoCall THEN {}
          ELSE { [fn |-> returned.fn, start |-> returned.start, edges |-> returned.edges,
                  log |-> returned.log, pc |-> "returned", outcome |-> returned.outcome] })

\* C28: at most one execution is active at any time (of the calls at an
\* await, at most one has not been stopped), and a call that was at an await
\* when stopWorkflow was called executes no node and updates no node data
\* afterwards.
C28_OneActiveStoppedDoesNothing ==
    /\ Cardinality({ k \in 1..Len(executions) : ~executions[k].stopped }) <= 1
    /\ \A c \in Calls : \A j \in 1..Len(c.log) : ~c.log[j].stopped

Successors(S, edges) == { e[2] : e \in { f \in edges : f[1] \in S } }

RECURSIVE ReachableFrom(_, _, _)
ReachableFrom(S, edges, k) ==
    IF k = 0 THEN {}
    ELSE Successors(S, edges) \cup ReachableFrom(Successors(S, edges), edges, k - 1)

HasCycle(edges) ==
    \E e \in edges : e[1] \in ReachableFrom({e[1]}, edges, Cardinality(edges))

\* the places in the log of a call where it set currentNodeId to a node
ExecutedAt(c, nodeId) ==
    { j \in 1..Len(c.log) : c.log[j].what = "execute" /\ c.log[j].node = nodeId }

\* C30: a call of executeWorkflow without a start node, on edges without a
\* cycle, executes no node twice, and a node only after every source of an
\* edge into it; on edges with a cycle it executes no node and returns, with
\* isRunning false.
C30_DependenciesFirst ==
    \A c \in Calls :
       (c.fn = "executeWorkflow" /\ c.start = NoNodeId) =>
          IF HasCycle(c.edges)
          THEN /\ c.log = <<>>
               /\ c.pc = "returned"
               /\ c.outcome = "cycle"
               /\ returned.atReturn.isRunning = FALSE
          ELSE /\ c.outcome # "cycle"
               /\ \A n \in DOMAIN wfTypes : Cardinality(ExecutedAt(c, n)) <= 1
               /\ \A e \in c.edges : \A j \in ExecutedAt(c, e[2]) :
                     \E k \in ExecutedAt(c, e[1]) : k < j

\* a node that comes first in the nodes array was executed after the node
\* it depends on, which comes later in the array
C30_Witness ==
    /\ returned # NoCall
    /\ returned.fn = "executeWorkflow"
    /\ returned.start = NoNodeId
    /\ returned.outcome = "done"
    /\ ~HasCycle(returned.edges)
    /\ \E e \in returned.edges :
          /\ e[1] > e[2]
          /\ \E j \in ExecutedAt(returned, e[2]), k \in ExecutedAt(returned, e[1]) : k < j

====
